---- MODULE Spec2Model ----
(***************************************************************************)
(* Model of server/src/services/product.service.js: the product service    *)
(* over a Mongoose model `Product`.  The Store is the Product collection;  *)
(* every `await` of a Store call is one atomic step of the calling request *)
(* and requests interleave between their steps.                            *)
(***************************************************************************)
EXTENDS Integers, Sequences, FiniteSets, TLC

VARIABLES
    store,      \* the Product collection: a function from the ids present to entities
    nextId,     \* the next id the Store assigns (ids are never reused)
    frame,      \* per request slot: the running call's position, arguments and result
    raw,        \* bulkAddProducts' shaping: the raw input record under the map callback
    processed   \* bulkAddProducts' shaping: the record the callback returned, or Pending

vars == <<store, nextId, frame, raw, processed>>

(***************************************************************************)
(* Bounds of the model.                                                    *)
(***************************************************************************)
MaxProducts == 2
MaxBatch == 2
MaxFailures == 1

Procs == {1, 2}

(***************************************************************************)
(* JavaScript values.  Every value is a record of one shape so that any    *)
(* two values can be compared.  A string is the sequence of its characters.*)
(***************************************************************************)
Undefined == [t |-> "undefined", n |-> 0, s |-> <<>>]
Null == [t |-> "null", n |-> 0, s |-> <<>>]
NaN == [t |-> "NaN", n |-> 0, s |-> <<>>]
Num(k) == [t |-> "number", n |-> k, s |-> <<>>]
Str(cs) == [t |-> "string", n |-> 0, s |-> cs]
Arr(len) == [t |-> "array", n |-> len, s |-> <<>>]

\* obj.key for a plain object: undefined when the key is not there
Get(obj, key) == IF key \in DOMAIN obj THEN obj[key] ELSE Undefined

\* ToBoolean: undefined, null, NaN, 0 and "" are falsy; arrays are truthy
Truthy(v) ==
    CASE v.t = "number" -> v.n # 0
      [] v.t = "string" -> v.s # <<>>
      [] v.t = "array" -> TRUE
      [] OTHER -> FALSE

\* a || b
Or(a, b) == IF Truthy(a) THEN a ELSE b

Digits == <<"0", "1", "2", "3", "4", "5", "6", "7", "8", "9">>

IsDigit(c) == \E d \in 1..10 : Digits[d] = c

DigitVal(c) == (CHOOSE d \in 1..10 : Digits[d] = c) - 1

RECURSIVE ParseDigits(_)
\* the decimal value of a string of digits
ParseDigits(cs) ==
    IF cs = <<>> THEN 0
    ELSE 10 * ParseDigits(SubSeq(cs, 1, Len(cs) - 1)) + DigitVal(cs[Len(cs)])

\* Number(v): "" is 0, a string of digits is its value, any other string is NaN,
\* null is 0, undefined is NaN, [] is 0
Number(v) ==
    CASE v.t = "number" -> v
      [] v.t = "string" ->
            IF \A i \in 1..Len(v.s) : IsDigit(v.s[i]) THEN Num(ParseDigits(v.s)) ELSE NaN
      [] v.t = "null" -> Num(0)
      [] v.t = "array" /\ v.n = 0 -> Num(0)
      [] OTHER -> NaN

(***************************************************************************)
(* bulkAddProducts: the shaping of one raw record (the map callback).      *)
(***************************************************************************)
Fields ==
    {"name", "description", "barcode", "price", "cost", "stockQuantity", "unit",
     "sku", "category", "categories", "supplier", "lowStockThreshold"}

ProcessProduct(product) ==
    [name |-> Get(product, "name"),
     description |-> Or(Get(product, "description"), Str(<<>>)),
     barcode |-> Or(Get(product, "barcode"), Null),
     price |-> Number(Get(product, "price")),
     cost |-> Number(Get(product, "cost")),
     stockQuantity |-> Number(Get(product, "stockQuantity")),
     unit |-> Or(Get(product, "unit"), Str(<<"p", "c", "s">>)),
     sku |-> Or(Get(product, "sku"), Str(<<>>)),
     category |-> Or(Get(product, "category"), Str(<<>>)),
     categories |-> Or(Get(product, "categories"), Arr(0)),
     supplier |-> Or(Get(product, "supplier"), Null),
     lowStockThreshold |->
        IF Truthy(Get(product, "lowStockThreshold"))
        THEN Number(Get(product, "lowStockThreshold"))
        ELSE Undefined]

Pending == [pending |-> TRUE]

\* raw records of an import: each optional key is absent or holds one of a few values
RawOptions(key) ==
    CASE key = "name" -> {Str(<<"a">>)}
      [] key = "description" -> {Undefined, Str(<<"d">>)}
      [] key = "barcode" -> {Undefined, Str(<<"7">>)}
      [] key = "price" -> {Num(5), Str(<<"1", "2">>), Str(<<"x">>)}
      [] key = "cost" -> {Num(3)}
      [] key = "stockQuantity" -> {Num(0), Undefined}
      [] key = "unit" -> {Undefined, Str(<<"k", "g">>)}
      [] key = "sku" -> {Undefined, Str(<<"s">>)}
      [] key = "category" -> {Undefined}
      [] key = "categories" -> {Undefined, Arr(0), Arr(1)}
      [] key = "supplier" -> {Undefined, Str(<<"f">>)}
      [] key = "lowStockThreshold" ->
            {Undefined, Num(0), Num(4), Str(<<"0">>), Str(<<"4">>)}

\* a plain object holding exactly the keys whose value is not undefined
Obj(f) == [k \in {key \in DOMAIN f : f[key] # Undefined} |-> f[k]]

RawRecords ==
    {Obj([name |-> v1, description |-> v2, barcode |-> v3, price |-> v4, cost |-> v5,
          stockQuantity |-> v6, unit |-> v7, sku |-> v8, category |-> v9,
          categories |-> v10, supplier |-> v11, lowStockThreshold |-> v12]) :
        v1 \in RawOptions("name"), v2 \in RawOptions("description"),
        v3 \in RawOptions("barcode"), v4 \in RawOptions("price"),
        v5 \in RawOptions("cost"), v6 \in RawOptions("stockQuantity"),
        v7 \in RawOptions("unit"), v8 \in RawOptions("sku"),
        v9 \in RawOptions("category"), v10 \in RawOptions("categories"),
        v11 \in RawOptions("supplier"), v12 \in RawOptions("lowStockThreshold")}

(***************************************************************************)
(* The Store: the Product collection behind the Mongoose model.            *)
(***************************************************************************)
Ids == 1..MaxProducts

\* a document as the service holds it: its id, its fields, and the paths
\* modified since it was loaded (Mongoose's change tracking)
Doc(id, fields) == [id |-> id, fields |-> fields, modified |-> {}]

\* Product.findById(id): the document, or null
findById(st, id) == IF id \in DOMAIN st THEN Doc(id, st[id]) ELSE Null

\* Product.find({ _id: { $in: ids } }): the documents present, in no order
find(st, ids) == {Doc(id, st[id]) : id \in ids \cap DOMAIN st}

\* the assignment with its arguments exchanged: the body takes the document's
\* values and the document is left as it was loaded
ObjectAssignReversed(doc, body) == doc

\* Object.assign(product, updateBody): every own key of the body is set on the
\* document; a path is marked modified when the value set differs from its value
ObjectAssign(doc, body) ==
    [id |-> doc.id,
     fields |-> [f \in Fields |-> IF f \in DOMAIN body THEN body[f] ELSE doc.fields[f]],
     modified |-> doc.modified \cup {f \in DOMAIN body : body[f] # doc.fields[f]}]

\* a save that writes the whole document as the service holds it
saveWholeDocument(st, doc) ==
    IF doc.id \in DOMAIN st
    THEN [ok |-> TRUE, st |-> [st EXCEPT ![doc.id] = doc.fields]]
    ELSE [ok |-> FALSE, st |-> st]

\* a save that inserts the document when none is stored under its id
saveUpsert(st, doc) ==
    [ok |-> TRUE,
     st |-> [i \in DOMAIN st \cup {doc.id} |->
                IF i = doc.id THEN doc.fields ELSE st[i]]]

\* product.save() of a loaded document (not new): Mongoose sends an update of
\* the modified paths, filtered by the id.  It inserts nothing; when no stored
\* document matches, the save fails with DocumentNotFoundError
save(st, doc) ==
    IF doc.id \in DOMAIN st
    THEN [ok |-> TRUE,
          st |-> [st EXCEPT ![doc.id] =
                    [f \in Fields |-> IF f \in doc.modified THEN doc.fields[f] ELSE @[f]]]]
    ELSE [ok |-> FALSE, st |-> st]

\* a deleteOne with no filter: it removes the first document of the collection
deleteOneFirst(st, doc) ==
    [i \in DOMAIN st \ {CHOOSE m \in DOMAIN st : \A j \in DOMAIN st : m <= j} |-> st[i]]

\* product.deleteOne(): removes the document with that id, if it is still there
deleteOne(st, doc) == [i \in DOMAIN st \ {doc.id} |-> st[i]]

\* the Store's insert of one new entity under the next id
insert(st, id, fields) == [i \in DOMAIN st \cup {id} |-> IF i = id THEN fields ELSE st[i]]

\* the schema's defaults for the fields a body leaves unset
SchemaDefault(f) ==
    CASE f = "description" -> Str(<<>>)
      [] f = "barcode" -> Null
      [] f = "unit" -> Str(<<"p", "c", "s">>)
      [] f = "sku" -> Str(<<>>)
      [] f = "category" -> Str(<<>>)
      [] f = "categories" -> Arr(0)
      [] f = "supplier" -> Null
      [] OTHER -> Undefined

\* new Product(body)
NewProduct(body) ==
    [f \in Fields |-> IF Get(body, f) # Undefined THEN body[f] ELSE SchemaDefault(f)]

\* the schema's validation: name is required
SchemaValid(fields) == fields["name"].t = "string" /\ fields["name"].s # <<>>

(***************************************************************************)
(* Errors and call frames.                                                 *)
(***************************************************************************)
NOT_FOUND == 404

NoError == [name |-> "", status |-> 0, message |-> ""]

\* the error with another status
NotFoundErrorWrongStatus ==
    [name |-> "ApiError", status |-> 400, message |-> "Product not found"]

\* new ApiError(httpStatus.NOT_FOUND, 'Product not found')
NotFoundError == [name |-> "ApiError", status |-> NOT_FOUND, message |-> "Product not found"]

\* Mongoose's error for a save() that matches no stored document
DocumentNotFoundError == [name |-> "DocumentNotFoundError", status |-> 0, message |-> ""]

ValidationError == [name |-> "ValidationError", status |-> 0, message |-> ""]

BulkWriteError == [name |-> "MongoBulkWriteError", status |-> 0, message |-> ""]

Idle == [op |-> "none", pc |-> "idle", args |-> <<>>, product |-> Null,
         err |-> NoError, ret |-> Null]

\* a request slot takes a new call when it holds none
Ready(p) == frame[p].pc = "idle"

Returned(op, args, ret) ==
    [op |-> op, pc |-> "returned", args |-> args, product |-> Null,
     err |-> NoError, ret |-> ret]

Threw(op, args, err) ==
    [op |-> op, pc |-> "threw", args |-> args, product |-> Null,
     err |-> err, ret |-> Null]

Awaiting(op, pc, args, product) ==
    [op |-> op, pc |-> pc, args |-> args, product |-> product,
     err |-> NoError, ret |-> Null]

(***************************************************************************)
(* Inputs.                                                                 *)
(***************************************************************************)
NameA == Str(<<"a">>)
NameB == Str(<<"b">>)

CreateBodies ==
    {[name |-> NameA, price |-> Num(1), cost |-> Num(1), stockQuantity |-> Num(1)],
     [price |-> Num(1), cost |-> Num(1), stockQuantity |-> Num(1)]}

UpdateBodies ==
    {<<>>,
     [price |-> Num(1)],
     [price |-> Num(2)],
     [name |-> NameB],
     [name |-> NameB, price |-> Num(2)]}

(***************************************************************************)
(* createProduct, getProductById, updateProductById, deleteProductById.    *)
(***************************************************************************)
createProduct(p) ==
    /\ Ready(p)
    /\ nextId <= MaxProducts
    /\ \E body \in CreateBodies :
        /\ IF SchemaValid(NewProduct(body))
           THEN /\ store' = insert(store, nextId, NewProduct(body))
                /\ nextId' = nextId + 1
                /\ frame' = [frame EXCEPT ![p] =
                        Returned("createProduct", [body |-> body],
                                 Doc(nextId, NewProduct(body)))]
           ELSE /\ frame' = [frame EXCEPT ![p] =
                        Threw("createProduct", [body |-> body], ValidationError)]
                /\ UNCHANGED <<store, nextId>>
        /\ UNCHANGED <<raw, processed>>

getProductById(p) ==
    /\ Ready(p)
    /\ \E id \in Ids :
        /\ frame' = [frame EXCEPT ![p] =
                Returned("getProductById", [id |-> id], findById(store, id))]
        /\ UNCHANGED <<store, nextId, raw, processed>>

\* lines 47-50: the read, and the throw when nothing is found
updateProductByIdRead(p) ==
    /\ Ready(p)
    /\ \E id \in Ids, body \in UpdateBodies :
        /\ frame' = [frame EXCEPT ![p] =
                IF findById(store, id) = Null
                THEN Threw("updateProductById", [id |-> id, body |-> body], NotFoundError)
                ELSE Awaiting("updateProductById", "save", [id |-> id, body |-> body],
                              findById(store, id))]
        /\ UNCHANGED <<store, nextId, raw, processed>>

\* lines 51-53: the assignment, the save and the return
updateProductByIdSave(p) ==
    /\ frame[p].op = "updateProductById"
    /\ frame[p].pc = "save"
    /\ LET product == ObjectAssign(frame[p].product, frame[p].args.body)
           saved == save(store, product)
       IN  /\ store' = saved.st
           /\ frame' = [frame EXCEPT ![p] =
                   IF saved.ok
                   THEN Returned("updateProductById", frame[p].args,
                                 Doc(product.id, product.fields))
                   ELSE Threw("updateProductById", frame[p].args, DocumentNotFoundError)]
    /\ UNCHANGED <<nextId, raw, processed>>

\* lines 62-65
deleteProductByIdRead(p) ==
    /\ Ready(p)
    /\ \E id \in Ids :
        /\ frame' = [frame EXCEPT ![p] =
                IF findById(store, id) = Null
                THEN Threw("deleteProductById", [id |-> id], NotFoundError)
                ELSE Awaiting("deleteProductById", "deleteOne", [id |-> id],
                              findById(store, id))]
        /\ UNCHANGED <<store, nextId, raw, processed>>

\* lines 66-67
deleteProductByIdDelete(p) ==
    /\ frame[p].op = "deleteProductById"
    /\ frame[p].pc = "deleteOne"
    /\ store' = deleteOne(store, frame[p].product)
    /\ frame' = [frame EXCEPT ![p] =
            Returned("deleteProductById", frame[p].args, frame[p].product)]
    /\ UNCHANGED <<nextId, raw, processed>>

\* the caller takes the result or the error of a settled call
respond(p) ==
    /\ frame[p].pc \in {"returned", "threw"}
    /\ frame' = [frame EXCEPT ![p] = Idle]
    /\ UNCHANGED <<store, nextId, raw, processed>>

Crud(p) ==
    \/ respond(p)
    \/ createProduct(p)
    \/ getProductById(p)
    \/ updateProductByIdRead(p)
    \/ updateProductByIdSave(p)
    \/ deleteProductByIdRead(p)
    \/ deleteProductByIdDelete(p)

(***************************************************************************)
(* bulkUpdateProducts.                                                     *)
(***************************************************************************)
\* a record of productsToUpdate: its id and its other keys
BulkFieldSets ==
    {[stockQuantity |-> Num(5)],
     [name |-> NameB, price |-> Num(2), cost |-> Num(2)],
     [price |-> Undefined, cost |-> Num(3)]}

BulkItems == {[id |-> i, fields |-> f] : i \in Ids, f \in BulkFieldSets}

SeqsUpTo(S, n) == UNION {[1..k -> S] : k \in 1..n}

\* a $set of every key of the record but its id
updateFieldsAllKeys(product) ==
    [f \in {w \in DOMAIN product.fields : product.fields[w] # Undefined}
        |-> product.fields[f]]

\* lines 82-87: only the three fields, and only those that are not undefined
updateFields(product) ==
    [f \in {w \in {"price", "cost", "stockQuantity"} : Get(product.fields, w) # Undefined}
        |-> product.fields[f]]

\* lines 81-95
bulkOps(productsToUpdate) ==
    [i \in 1..Len(productsToUpdate) |->
        [filter |-> productsToUpdate[i].id, set |-> updateFields(productsToUpdate[i])]]

\* an updateOne with { upsert: true }: it inserts when the filter matches none
updateOneUpsert(st, op) ==
    [i \in DOMAIN st \cup {op.filter} |->
        [f \in Fields |->
            IF f \in DOMAIN op.set THEN op.set[f]
            ELSE IF i \in DOMAIN st THEN st[i][f] ELSE Undefined]]

\* one updateOne of a bulk write: $set on the document the filter matches; no
\* upsert, and no error when it matches none
updateOne(st, op) ==
    IF op.filter \in DOMAIN st
    THEN [st EXCEPT ![op.filter] =
            [f \in Fields |-> IF f \in DOMAIN op.set THEN op.set[f] ELSE @[f]]]
    ELSE st

RECURSIVE ApplyOps(_, _, _, _, _)
\* the Store runs the operations from the i-th on; `failing` are the operations it
\* fails.  An ordered bulk write stops at the first failure, an unordered one goes on
ApplyOps(st, ops, i, ordered, failing) ==
    IF i > Len(ops) THEN st
    ELSE IF i \in failing
         THEN IF ordered THEN st ELSE ApplyOps(st, ops, i + 1, ordered, failing)
         ELSE ApplyOps(updateOne(st, ops[i]), ops, i + 1, ordered, failing)

\* line 97: Product.bulkWrite(bulkOps) is given no options, and a bulk write is
\* ordered unless { ordered: false } is passed
BulkWriteOrdered == TRUE

bulkWrite(st, ops, failing) == ApplyOps(st, ops, 1, BulkWriteOrdered, failing)

\* the operations the Store may fail, out of those that match a document
FailureSets(matching) == {F \in SUBSET matching : Cardinality(F) <= MaxFailures}

\* lines 81-97
bulkUpdateProductsWrite(p) ==
    /\ Ready(p)
    /\ \E productsToUpdate \in SeqsUpTo(BulkItems, MaxBatch) :
      \E failing \in FailureSets({i \in 1..Len(productsToUpdate) :
                                    productsToUpdate[i].id \in DOMAIN store}) :
        LET args == [productsToUpdate |-> productsToUpdate, failing |-> failing]
        IN  /\ store' = bulkWrite(store, bulkOps(productsToUpdate), failing)
            /\ frame' = [frame EXCEPT ![p] =
                    IF failing # {}
                    THEN Threw("bulkUpdateProducts", args, BulkWriteError)
                    ELSE Awaiting("bulkUpdateProducts", "find", args, Null)]
            /\ UNCHANGED <<nextId, raw, processed>>

\* lines 100-103
bulkUpdateProductsFind(p) ==
    /\ frame[p].op = "bulkUpdateProducts"
    /\ frame[p].pc = "find"
    /\ LET productsToUpdate == frame[p].args.productsToUpdate
           productIds == {productsToUpdate[i].id : i \in 1..Len(productsToUpdate)}
       IN  frame' = [frame EXCEPT ![p] =
                Returned("bulkUpdateProducts", frame[p].args, find(store, productIds))]
    /\ UNCHANGED <<store, nextId, raw, processed>>

(***************************************************************************)
(* bulkAddProducts.                                                        *)
(***************************************************************************)
RawValid == [name |-> NameA, price |-> Num(1), cost |-> Num(1), stockQuantity |-> Num(1)]

RawOther ==
    [name |-> NameB, price |-> Str(<<"2">>), cost |-> Num(1), stockQuantity |-> Num(1)]

RawNoName == [price |-> Num(1), cost |-> Num(1), stockQuantity |-> Num(1)]

\* the positions of a sequence that satisfy a test, in order
RECURSIVE Positions(_, _)
Positions(n, keep) ==
    IF n = 0 THEN <<>>
    ELSE IF n \in keep THEN Append(Positions(n - 1, keep), n) ELSE Positions(n - 1, keep)

\* Product.insertMany(docs, { ordered: false }).  Mongoose validates every
\* document first and, the insert being unordered, leaves out the ones that fail
\* validation without raising; the Store inserts the others one by one, going on
\* past the ones it rejects (`rejected`, e.g. a duplicate key).
Validated(docs) == {i \in 1..Len(docs) : SchemaValid(NewProduct(docs[i]))}

InsertedPositions(docs, rejected) == Positions(Len(docs), Validated(docs) \ rejected)

\* the documents inserted, in input order, with the ids the Store gave them
InsertedDocs(docs, rejected, firstId) ==
    LET pos == InsertedPositions(docs, rejected)
    IN  [k \in 1..Len(pos) |-> Doc(firstId + k - 1, NewProduct(docs[pos[k]]))]

RECURSIVE InsertAll(_, _)
InsertAll(st, inserted) ==
    IF inserted = <<>> THEN st
    ELSE InsertAll(insert(st, inserted[1].id, inserted[1].fields), Tail(inserted))

\* error.writeErrors: one write error per rejected document, with its index in the
\* input (from 0) and the Store's message
WriteErrors(docs, rejected) ==
    LET pos == Positions(Len(docs), rejected)
    IN  [k \in 1..Len(pos) |-> [index |-> pos[k] - 1, errmsg |-> "E11000"]]

\* lines 111-157
bulkAddProducts(p) ==
    /\ Ready(p)
    /\ \E productsToAdd \in SeqsUpTo({RawValid, RawOther, RawNoName}, MaxBatch) :
      LET processedProducts ==
              [i \in 1..Len(productsToAdd) |-> ProcessProduct(productsToAdd[i])]
      IN  \E rejected \in SUBSET Validated(processedProducts) :
            LET insertedProducts == InsertedDocs(processedProducts, rejected, nextId)
                writeErrors == WriteErrors(processedProducts, rejected)
                args == [productsToAdd |-> productsToAdd, rejected |-> rejected]
            IN  /\ nextId + Len(insertedProducts) - 1 <= MaxProducts
                /\ store' = InsertAll(store, insertedProducts)
                /\ nextId' = nextId + Len(insertedProducts)
                /\ frame' = [frame EXCEPT ![p] =
                        IF writeErrors = <<>>
                        THEN Returned("bulkAddProducts", args,
                                [success |-> TRUE,
                                 insertedCount |-> Len(insertedProducts),
                                 products |-> insertedProducts])
                        ELSE Returned("bulkAddProducts", args,
                                [success |-> TRUE,
                                 insertedCount |-> Len(insertedProducts),
                                 products |-> insertedProducts,
                                 errors |-> [k \in 1..Len(writeErrors) |->
                                                [index |-> writeErrors[k].index,
                                                 error |-> writeErrors[k].errmsg]]])]
                /\ UNCHANGED <<raw, processed>>

Init ==
    /\ store = <<>>
    /\ nextId = 1
    /\ frame = [p \in Procs |-> Idle]
    /\ raw = <<>>
    /\ processed = Pending

\* one request at a time
Next == Crud(1)

Spec == Init /\ [][Next]_vars

NextBulkUpdate ==
    \/ respond(1)
    \/ createProduct(1)
    \/ bulkUpdateProductsWrite(1)
    \/ bulkUpdateProductsFind(1)

SpecBulkUpdate == Init /\ [][NextBulkUpdate]_vars

NextBulkAdd ==
    \/ respond(1)
    \/ createProduct(1)
    \/ getProductById(1)
    \/ bulkAddProducts(1)

SpecBulkAdd == Init /\ [][NextBulkAdd]_vars

\* requests in every slot, their steps interleaved
NextConc == \E p \in Procs : Crud(p)

SpecConc == Init /\ [][NextConc]_vars

\* the map callback of bulkAddProducts applied to the record under it
ShapeRecord ==
    /\ processed = Pending
    /\ processed' = ProcessProduct(raw)
    /\ UNCHANGED <<store, nextId, frame, raw>>

InitShape ==
    /\ store = <<>>
    /\ nextId = 1
    /\ frame = [p \in Procs |-> Idle]
    /\ raw \in RawRecords
    /\ processed = Pending

NextShape == ShapeRecord

SpecShape == InitShape /\ [][NextShape]_vars

(***************************************************************************)
(* Properties.                                                             *)
(***************************************************************************)
\* the step is slot p's first step of a call of op
Calls(p, op) == Ready(p) /\ frame'[p] # frame[p] /\ frame'[p].op = op

\* the step is slot p's step of a call of op from position pc
Resumes(p, op, pc) == frame[p].op = op /\ frame[p].pc = pc /\ frame'[p] # frame[p]

\* every entity but the one with this id is as it was
OthersUnchanged(id) ==
    /\ DOMAIN store' \ {id} = DOMAIN store \ {id}
    /\ \A j \in DOMAIN store \ {id} : store'[j] = store[j]

\* C1: updateProductById with an id that resolves to no entity fails with NotFound
\* (404, "Product not found") and leaves the Store as it was, whatever the body.
C1_UpdateMissingIdNotFound ==
    [][\A p \in Procs :
        (Calls(p, "updateProductById") /\ frame'[p].args.id \notin DOMAIN store)
        => /\ frame'[p].pc = "threw"
           /\ frame'[p].err.name = "ApiError"
           /\ frame'[p].err.status = 404
           /\ frame'[p].err.message = "Product not found"
           /\ store' = store]_vars

C1_Witness ==
    /\ frame[1].op = "updateProductById"
    /\ frame[1].pc = "threw"
    /\ frame[1].err.message = "Product not found"
    /\ frame[1].args.id \notin DOMAIN store
    /\ frame[1].args.body # <<>>
    /\ DOMAIN store # {}

\* C2: with no other operation interleaved, updateProductById on an existing entity
\* overwrites exactly the fields of the body, keeps every other field, leaves every
\* other entity as it was, and returns the entity as stored.
C2_UpdateShallowMerge ==
    [][\A p \in Procs :
        Resumes(p, "updateProductById", "save")
        => LET id == frame[p].args.id
               body == frame[p].args.body
           IN  /\ frame'[p].pc = "returned"
               /\ id \in DOMAIN store'
               /\ \A f \in Fields :
                    store'[id][f] = IF f \in DOMAIN body THEN body[f] ELSE store[id][f]
               /\ OthersUnchanged(id)
               /\ frame'[p].ret.id = id
               /\ frame'[p].ret.fields = store'[id]]_vars

C2_Witness ==
    /\ frame[1].op = "updateProductById"
    /\ frame[1].pc = "returned"
    /\ frame[1].args.body = [name |-> NameB, price |-> Num(2)]
    /\ store[frame[1].args.id]["name"] = NameB
    /\ store[frame[1].args.id]["price"] = Num(2)
    /\ store[frame[1].args.id]["cost"] = Num(1)
    /\ Cardinality(DOMAIN store) = 2

\* C3: deleteProductById with an id that resolves to no entity fails with NotFound
\* and leaves the Store as it was; with an existing id it removes exactly that
\* entity and returns its last stored state, and a getProductById on that id
\* afterwards (an id the Store has assigned and no longer holds) returns null, not
\* a failure.
C3_DeleteRemovesExactlyThatEntity ==
    [][\A p \in Procs :
        /\ (Calls(p, "deleteProductById") /\ frame'[p].args.id \notin DOMAIN store)
           => /\ frame'[p].pc = "threw"
              /\ frame'[p].err.status = 404
              /\ store' = store
        /\ Resumes(p, "deleteProductById", "deleteOne")
           => /\ frame'[p].pc = "returned"
              /\ frame[p].args.id \in DOMAIN store
              /\ frame[p].args.id \notin DOMAIN store'
              /\ OthersUnchanged(frame[p].args.id)
              /\ frame'[p].ret.id = frame[p].args.id
              /\ frame'[p].ret.fields = store[frame[p].args.id]
        /\ (/\ Calls(p, "getProductById")
            /\ frame'[p].args.id < nextId
            /\ frame'[p].args.id \notin DOMAIN store)
           => /\ frame'[p].pc = "returned"
              /\ frame'[p].ret = Null]_vars

C3_Witness ==
    /\ frame[1].op = "getProductById"
    /\ frame[1].pc = "returned"
    /\ frame[1].ret = Null
    /\ frame[1].args.id < nextId
    /\ DOMAIN store # {}

C10_DeletedEntityNotRecreated ==
    [][/\ \A p \in Procs :
            (Resumes(p, "updateProductById", "save") /\ frame[p].args.id \notin DOMAIN store)
            => frame[p].args.id \notin DOMAIN store'
       /\ \A id \in DOMAIN store' \ DOMAIN store :
            \E p \in Procs :
                /\ frame'[p] # frame[p]
                /\ frame'[p].op \in {"createProduct", "bulkAddProducts"}]_vars

C10_Witness ==
    /\ frame[1].op = "updateProductById"
    /\ frame[1].pc = "threw"
    /\ frame[1].err = DocumentNotFoundError
    /\ frame[2].op = "deleteProductById"
    /\ frame[2].pc = "returned"
    /\ frame[2].args.id = frame[1].args.id
    /\ frame[1].args.id \notin DOMAIN store

\* the records of a batch that set field f of entity id, but for the failed ones
Setters(items, failing, id, f) ==
    {j \in 1..Len(items) \ failing :
        /\ items[j].id = id
        /\ f \in {"price", "cost", "stockQuantity"}
        /\ Get(items[j].fields, f) # Undefined}

Last(J) == CHOOSE m \in J : \A j \in J : j <= m

\* the updates of the records that did not fail are all in the Store: every field
\* a record sets holds the value of the last such record naming the entity
UpdatesApplied(items, failing) ==
    \A id \in DOMAIN store : \A f \in Fields :
        Setters(items, failing, id, f) # {}
        => store'[id][f] = items[Last(Setters(items, failing, id, f))].fields[f]

\* nothing else is written: no entity enters or leaves, and a field no record
\* sets keeps its value
NothingElseWritten(items, failing) ==
    /\ DOMAIN store' = DOMAIN store
    /\ \A id \in DOMAIN store : \A f \in Fields :
        Setters(items, failing, id, f) = {} => store'[id][f] = store[id][f]

NamedIds(items) == {items[i].id : i \in 1..Len(items)}

\* the result holds one entity per id named and stored, each as it is stored
ReturnsStoredEntities(p) ==
    LET named == NamedIds(frame[p].args.productsToUpdate) \cap DOMAIN store
    IN  /\ frame'[p].pc = "returned"
        /\ Cardinality(frame'[p].ret) = Cardinality(named)
        /\ \A id \in named :
            \E d \in frame'[p].ret : d.id = id /\ d.fields = store[id]

\* C4 as stated: when the update of one record fails in the Store, the updates of
\* all the other records of the batch, before and after it, are still applied.
C4_BulkUpdateContinuesPastFailure ==
    [][\A p \in Procs :
        (Calls(p, "bulkUpdateProducts") /\ Cardinality(frame'[p].args.failing) = 1)
        => UpdatesApplied(frame'[p].args.productsToUpdate, frame'[p].args.failing)]_vars

\* C5: when every id of the input exists, each named entity has only the present
\* (not undefined) fields among price, cost and stockQuantity overwritten; other
\* keys of a record are not written, the entities not named are unchanged, and the
\* result holds every named entity as stored after those changes.
C5_BulkUpdateWritesOnlyWhitelistedFields ==
    [][\A p \in Procs :
        /\ (/\ Calls(p, "bulkUpdateProducts")
            /\ frame'[p].args.failing = {}
            /\ NamedIds(frame'[p].args.productsToUpdate) \subseteq DOMAIN store)
           => /\ frame'[p].pc = "find"
              /\ UpdatesApplied(frame'[p].args.productsToUpdate, {})
              /\ NothingElseWritten(frame'[p].args.productsToUpdate, {})
        /\ (/\ Resumes(p, "bulkUpdateProducts", "find")
            /\ NamedIds(frame[p].args.productsToUpdate) \subseteq DOMAIN store)
           => /\ ReturnsStoredEntities(p)
              /\ store' = store]_vars

C5_Witness ==
    /\ frame[1].op = "bulkUpdateProducts"
    /\ frame[1].pc = "returned"
    /\ frame[1].args.productsToUpdate =
            <<[id |-> 1, fields |-> [name |-> NameB, price |-> Num(2), cost |-> Num(2)]],
              [id |-> 2, fields |-> [stockQuantity |-> Num(5)]]>>
    /\ Cardinality(frame[1].ret) = 2
    /\ store[1]["name"] = NameA
    /\ store[1]["price"] = Num(2)
    /\ store[1]["cost"] = Num(2)
    /\ store[1]["stockQuantity"] = Num(1)
    /\ store[2]["stockQuantity"] = Num(5)
    /\ store[2]["cost"] = Num(1)

\* C9: for ids of the input that are not in the Store, bulkUpdateProducts raises
\* no error and creates no entity; it still applies the updates of the records
\* whose ids exist, and returns exactly the stored entities whose id is named, so
\* the records with missing ids are absent from the result.
C9_BulkUpdateSkipsMissingIds ==
    [][\A p \in Procs :
        /\ (/\ Calls(p, "bulkUpdateProducts")
            /\ frame'[p].args.failing = {}
            /\ ~(NamedIds(frame'[p].args.productsToUpdate) \subseteq DOMAIN store))
           => /\ frame'[p].pc = "find"
              /\ DOMAIN store' = DOMAIN store
              /\ UpdatesApplied(frame'[p].args.productsToUpdate, {})
        /\ (/\ Resumes(p, "bulkUpdateProducts", "find")
            /\ ~(NamedIds(frame[p].args.productsToUpdate) \subseteq DOMAIN store))
           => /\ ReturnsStoredEntities(p)
              /\ \A d \in frame'[p].ret : d.id \in DOMAIN store
              /\ store' = store]_vars

C9_Witness ==
    /\ frame[1].op = "bulkUpdateProducts"
    /\ frame[1].pc = "returned"
    /\ frame[1].args.productsToUpdate =
            <<[id |-> 2, fields |-> [stockQuantity |-> Num(5)]],
              [id |-> 1, fields |-> [stockQuantity |-> Num(5)]]>>
    /\ DOMAIN store = {1}
    /\ store[1]["stockQuantity"] = Num(5)
    /\ Cardinality(frame[1].ret) = 1

\* the records of a bulkAddProducts input the Store rejects: those with no name,
\* and those it refuses on insertion
NotInserted(args) ==
    {i \in 1..Len(args.productsToAdd) : "name" \notin DOMAIN args.productsToAdd[i]}
        \cup args.rejected

SomeRecordValid(args) == NotInserted(args) # 1..Len(args.productsToAdd)

\* C6 as stated: when the Store rejects some records of a bulkAddProducts input
\* (a missing name, a duplicate key) and the others are valid, the call returns
\* success, insertedCount and products are those of the records inserted, which
\* stay in the Store, and errors holds one entry per rejected record with its
\* position in the input; errors is absent exactly when no record was rejected.
C6_BulkAddReportsEveryRejectedRecord ==
    \A p \in Procs :
        (frame[p].op = "bulkAddProducts" /\ SomeRecordValid(frame[p].args))
        => LET items == frame[p].args.productsToAdd
               notInserted == NotInserted(frame[p].args)
               result == frame[p].ret
           IN  /\ frame[p].pc = "returned"
               /\ result.success
               /\ result.insertedCount = Len(items) - Cardinality(notInserted)
               /\ Len(result.products) = result.insertedCount
               /\ \A k \in 1..Len(result.products) :
                    /\ result.products[k].id \in DOMAIN store
                    /\ store[result.products[k].id] = result.products[k].fields
               /\ ("errors" \in DOMAIN result) <=> (notInserted # {})
               /\ "errors" \in DOMAIN result
                  => /\ Len(result.errors) = Cardinality(notInserted)
                     /\ {result.errors[k].index : k \in 1..Len(result.errors)}
                            = {i - 1 : i \in notInserted}

Supplied(product, key) == Get(product, key) # Undefined

IsNumber(v) == v.t \in {"number", "NaN"}

\* C7 as stated: the record bulkAddProducts submits has the default of a field
\* only when the field is absent from the raw record ("" for description, sku and
\* category, null for barcode and supplier, "pcs" for unit, empty for categories),
\* price, cost and stockQuantity as numbers, and lowStockThreshold as a number
\* whenever it is present, 0 included, and unset only when absent; a supplied
\* value is never replaced by a default.
C7_ShapingKeepsSuppliedValues ==
    processed # Pending
    => /\ \A f \in {"description", "sku", "category"} :
            ~Supplied(raw, f) => processed[f] = Str(<<>>)
       /\ \A f \in {"barcode", "supplier"} : ~Supplied(raw, f) => processed[f] = Null
       /\ ~Supplied(raw, "unit") => processed["unit"] = Str(<<"p", "c", "s">>)
       /\ ~Supplied(raw, "categories") => processed["categories"] = Arr(0)
       /\ \A f \in {"price", "cost", "stockQuantity"} : IsNumber(processed[f])
       /\ Supplied(raw, "lowStockThreshold") => IsNumber(processed["lowStockThreshold"])
       /\ ~Supplied(raw, "lowStockThreshold") => processed["lowStockThreshold"] = Undefined
       /\ \A f \in {"description", "sku", "category", "barcode", "supplier", "unit",
                    "categories"} :
            Supplied(raw, f) => processed[f] = raw[f]

====
